---------------------------- MODULE Spec2Model ----------------------------
(***************************************************************************)
(* Model of the DAQ telemetry pipeline: the dedup insert pipeline of       *)
(* database/db_insert.py (insert_single, insert_batch) running against a   *)
(* transactional store, and the packet parser of parser/parser.py (parse,  *)
(* format).                                                                *)
(*                                                                         *)
(* Python values are tagged records [t |-> <type name>, <payload field>],   *)
(* the payload field named after the kind of payload.                      *)
(* A Python str is a sequence of tokens (characters, or for timestamps the *)
(* lexical pieces date / separator / time / offset), so that strip(),      *)
(* endswith('Z') and datetime.fromisoformat() are computed, not assumed.   *)
(***************************************************************************)
EXTENDS Integers, Sequences, FiniteSets, TLC

\* ------------------------------------------------------------------ bounds
\* callers, each holding its own connection
NumCallers == 2
\* calls issued in one behaviour, all callers together
MaxCalls == 2
\* rows in one batch
MaxBatch == 2
\* failures the store reports spontaneously in one behaviour
MaxFaults == 1

\* ------------------------------------------------------------ Python values
PyNone == [t |-> "NoneType", z |-> 0]
PyStr(s) == [t |-> "str", s |-> s]
PyInt(n) == [t |-> "int", n |-> n]
PyFloat(n) == [t |-> "float", n |-> n]
PyBool(b) == [t |-> "bool", b |-> b]
PyDatetime(i) == [t |-> "datetime", i |-> i]
PyDict(f) == [t |-> "dict", d |-> f]
PyList(s) == [t |-> "list", l |-> s]

\* isinstance(x, str), isinstance(x, (int, float)): bool is a subclass of int
IsStr(x) == x.t = "str"
IsNumber(x) == x.t \in {"int", "float", "bool"}

\* str.strip(): drop the whitespace tokens at both ends
RECURSIVE LStrip(_)
LStrip(s) == IF s # <<>> /\ Head(s) = " " THEN LStrip(Tail(s)) ELSE s

RECURSIVE RStrip(_)
RStrip(s) ==
    IF s # <<>> /\ s[Len(s)] = " " THEN RStrip(SubSeq(s, 1, Len(s) - 1)) ELSE s

Strip(s) == RStrip(LStrip(s))

\* ------------------------------------------------------- datetime.fromisoformat
\* An instant: minutes since 1970-01-01T00:00, and whether the datetime
\* carries a UTC offset (aware, the minutes are UTC) or not (naive).
Instant(utc, aware) == [utc |-> utc, aware |-> aware]

DateTokens == {"2024-01-15", "2024-01-16"}
TimeTokens == {"10:30:00", "10:31:00"}
OffsetTokens == {"+00:00", "+01:00"}

DayOf(tok) == IF tok = "2024-01-15" THEN 19737 ELSE 19738
MinuteOf(tok) == IF tok = "10:30:00" THEN 630 ELSE 631
OffsetOf(tok) == IF tok = "+00:00" THEN 0 ELSE 60

\* datetime.fromisoformat(s): a date, then optionally one separator
\* character and a time, then optionally a numeric UTC offset.  The result
\* is [ok |-> FALSE] for a ValueError.  A literal "Z" suffix is never
\* passed in by the callers modelled here (they rewrite it first).
FromIsoformat(s) ==
    IF Len(s) = 1 /\ s[1] \in DateTokens
    THEN [ok |-> TRUE, val |-> Instant(DayOf(s[1]) * 1440, FALSE)]
    ELSE IF Len(s) = 3 /\ s[1] \in DateTokens /\ s[2] \in {"T", " "}
            /\ s[3] \in TimeTokens
    THEN [ok |-> TRUE,
          val |-> Instant(DayOf(s[1]) * 1440 + MinuteOf(s[3]), FALSE)]
    ELSE IF Len(s) = 4 /\ s[1] \in DateTokens /\ s[2] \in {"T", " "}
            /\ s[3] \in TimeTokens /\ s[4] \in OffsetTokens
    THEN [ok |-> TRUE,
          val |-> Instant(DayOf(s[1]) * 1440 + MinuteOf(s[3]) - OffsetOf(s[4]),
                          TRUE)]
    ELSE [ok |-> FALSE, val |-> Instant(0, FALSE)]

\* iso = s.strip(); if iso.endswith('Z'): iso = iso[:-1] + '+00:00'
RewriteZ(s) ==
    LET iso == Strip(s)
    IN  IF iso # <<>> /\ iso[Len(iso)] = "Z"
        THEN Append(SubSeq(iso, 1, Len(iso) - 1), "+00:00")
        ELSE iso

\* ------------------------------------------------- db_insert._to_datetime
\* Returns [ok, val]: ok = FALSE when fromisoformat raised.  A value that
\* is neither a datetime nor a str is returned unchanged.
InsertToDatetime(x) ==
    IF x.t = "datetime" THEN [ok |-> TRUE, val |-> x]
    ELSE IF x.t = "str"
    THEN LET r == FromIsoformat(RewriteZ(x.s))
         IN  [ok |-> r.ok, val |-> PyDatetime(r.val)]
    ELSE [ok |-> TRUE, val |-> x]

\* ------------------------------------------------- db_insert._normalize_row
required_fields == <<"timestamp", "session_id", "vehicle_id", "sensor_name", "value">>

NoRow == <<>>

\* isinstance(x, str) and x.strip() is non-empty
NonEmptyStr(x) == IsStr(x) /\ Strip(x.s) # <<>>

\* (row, error): error = "" stands for None
NormalizeRow(data) ==
    IF data.t # "dict" THEN [row |-> NoRow, error |-> "must be a dictionary"]
    ELSE IF \E i \in 1..Len(required_fields) : required_fields[i] \notin DOMAIN data.d
    THEN [row |-> NoRow, error |-> "missing required field"]
    ELSE LET d == data.d
             ts == InsertToDatetime(d["timestamp"])
         IN  IF ~ts.ok THEN [row |-> NoRow, error |-> "invalid timestamp"]
             ELSE IF ~NonEmptyStr(d["session_id"])
             THEN [row |-> NoRow, error |-> "session_id must be a non-empty string"]
             ELSE IF ~NonEmptyStr(d["vehicle_id"])
             THEN [row |-> NoRow, error |-> "vehicle_id must be a non-empty string"]
             ELSE IF ~NonEmptyStr(d["sensor_name"])
             THEN [row |-> NoRow, error |-> "sensor_name must be a non-empty string"]
             ELSE IF d["value"].t = "bool" \/ ~IsNumber(d["value"])
             THEN [row |-> NoRow, error |-> "value must be numeric"]
             ELSE [row |-> <<ts.val, d["session_id"], d["vehicle_id"],
                             d["sensor_name"], d["value"]>>,
                   error |-> ""]


\* --------------------------------------------------- db_insert.handle_insert_error
\* Exception classes the store driver raises, with psycopg's hierarchy:
\* OperationalError, IntegrityError, DataError and ProgrammingError derive
\* from DatabaseError; InterfaceError derives from psycopg.Error only;
\* AttributeError is no driver error at all.
ErrorKinds == {"OperationalError", "IntegrityError", "DataError",
               "ProgrammingError", "InterfaceError", "AttributeError"}

IsInstance(kind, class) ==
    \/ kind = class
    \/ class = "DatabaseError"
         /\ kind \in {"OperationalError", "IntegrityError", "DataError",
                      "ProgrammingError"}

\* (mutant) the base class is tested before its subclasses
HandleInsertErrorBaseFirst(kind) ==
    IF IsInstance(kind, "DatabaseError") THEN "database error"
    ELSE IF IsInstance(kind, "OperationalError") THEN "connection error"
    ELSE IF IsInstance(kind, "IntegrityError") THEN "integrity error"
    ELSE IF IsInstance(kind, "DataError") THEN "data error"
    ELSE "insert failed"

handle_insert_error(kind) ==
    IF IsInstance(kind, "OperationalError") THEN "connection error"
    ELSE IF IsInstance(kind, "IntegrityError") THEN "integrity error"
    ELSE IF IsInstance(kind, "DataError") THEN "data error"
    ELSE IF IsInstance(kind, "DatabaseError") THEN "database error"
    ELSE "insert failed"

\* ------------------------------------------------------------------- inputs
Chars(a, b) == <<a, b>>

I1 == Instant(19737 * 1440 + 630, TRUE)

\* A row-shaped mapping
RowDict(ts, session, vehicle, sensor, value) ==
    PyDict([timestamp |-> ts, session_id |-> session, vehicle_id |-> vehicle,
            sensor_name |-> sensor, value |-> value])

S1 == PyStr(Chars("s", "1"))
V1 == PyStr(Chars("v", "1"))
Rpm == PyStr(<<"r", "p", "m">>)
Speed == PyStr(<<"s", "p", "d">>)
TsZ == PyStr(<<"2024-01-15", "T", "10:30:00", "Z">>)

\* reading A with a native datetime; the same reading A with its timestamp
\* as a Z-suffixed string and another value; reading B
RowA == RowDict(PyDatetime(I1), S1, V1, Rpm, PyInt(1))
RowAz == RowDict(TsZ, S1, V1, Rpm, PyInt(2))
RowB == RowDict(PyDatetime(I1), S1, V1, Speed, PyInt(1))

SmallRows == {RowA, RowAz, RowB}

ShapeRows ==
    SmallRows \cup
    { RowDict(PyStr(<<" ", "2024-01-15", " ", "10:31:00", "+01:00", " ">>), S1, V1, Rpm, PyFloat(3)),
      RowDict(PyStr(<<"not-a-timestamp">>), S1, V1, Rpm, PyInt(1)),
      RowDict(PyStr(<<>>), S1, V1, Rpm, PyInt(1)),
      RowDict(PyNone, S1, V1, Rpm, PyInt(1)),
      RowDict(PyInt(1705314600), S1, V1, Rpm, PyInt(1)),
      RowDict(PyDatetime(I1), PyStr(<<>>), V1, Rpm, PyInt(1)),
      RowDict(PyDatetime(I1), PyStr(<<" ", " ">>), V1, Rpm, PyInt(1)),
      RowDict(PyDatetime(I1), PyInt(7), V1, Rpm, PyInt(1)),
      RowDict(PyDatetime(I1), S1, PyStr(<<>>), Rpm, PyInt(1)),
      RowDict(PyDatetime(I1), S1, PyNone, Rpm, PyInt(1)),
      RowDict(PyDatetime(I1), S1, V1, PyStr(<<" ">>), PyInt(1)),
      RowDict(PyDatetime(I1), S1, V1, PyNone, PyInt(1)),
      RowDict(PyDatetime(I1), S1, V1, Rpm, PyBool(TRUE)),
      RowDict(PyDatetime(I1), S1, V1, Rpm, PyStr(<<"1">>)),
      RowDict(PyDatetime(I1), S1, V1, Rpm, PyNone),
      PyDict([timestamp |-> PyDatetime(I1), session_id |-> S1,
              vehicle_id |-> V1, sensor_name |-> Rpm]),
      PyDict([session_id |-> S1, value |-> PyInt(1)]),
      PyStr(<<"r", "p", "m">>),
      PyNone }

SeqsUpTo(S, n) == UNION {[1..k -> S] : k \in 1..n}

\* One call: the operation, the store handle ("None" for a null handle)
\* and the argument.
InputSet(rows, handles, others) ==
    [op : {"insert_single"}, handle : handles, data : rows]
    \cup [op : {"insert_batch"}, handle : handles,
          data : {PyList(s) : s \in SeqsUpTo(rows, MaxBatch)} \cup others]

ConcInputs == InputSet(SmallRows, {"conn"}, {})
ShapeInputs == InputSet(ShapeRows, {"conn", "None"}, {PyList(<<>>), PyNone, RowA})

\* ------------------------------------------------------------------- json
\* A JSON text is a str like any other: a sequence of tokens, here the
\* punctuation, the literals, the quotes and characters of strings, and
\* the digits of numbers.  A mapping is a function from its keys; a key is
\* one token.  A float is modelled in tenths (PyFloat(941) is 94.1).
JsonInts == (-1..10) \cup {94, 100, 4200, 1705314600}

IntToken(n) == ToString(n)
IsIntToken(tok) == \E n \in JsonInts : ToString(n) = tok
IntOfToken(tok) == CHOOSE n \in JsonInts : ToString(n) = tok

\* the keys of a mapping, in a fixed order
RECURSIVE KeySeq(_)
KeySeq(K) ==
    IF K = {} THEN <<>>
    ELSE LET k == CHOOSE x \in K : TRUE IN <<k>> \o KeySeq(K \ {k})

\* json.dumps(x, separators=(",", ":")): [ok, toks]; ok = FALSE is the
\* TypeError for a value that is not JSON serializable
RECURSIVE Dumps(_)
RECURSIVE DumpsItems(_, _)
RECURSIVE DumpsMembers(_, _)

DumpsItems(items, i) ==
    IF i > Len(items) THEN [ok |-> TRUE, toks |-> <<>>]
    ELSE LET h == Dumps(items[i])
             r == DumpsItems(items, i + 1)
         IN  [ok |-> h.ok /\ r.ok,
              toks |-> (IF i > 1 THEN <<",">> ELSE <<>>) \o h.toks \o r.toks]

DumpsMembers(f, keys) ==
    IF keys = <<>> THEN [ok |-> TRUE, toks |-> <<>>]
    ELSE LET h == Dumps(f[Head(keys)])
             r == DumpsMembers(f, Tail(keys))
         IN  [ok |-> h.ok /\ r.ok,
              toks |-> <<"\"", Head(keys), "\"", ":">> \o h.toks
                       \o (IF Tail(keys) # <<>> THEN <<",">> ELSE <<>>) \o r.toks]

Dumps(x) ==
    IF x.t = "NoneType" THEN [ok |-> TRUE, toks |-> <<"null">>]
    ELSE IF x.t = "bool"
    THEN [ok |-> TRUE, toks |-> <<IF x.b THEN "true" ELSE "false">>]
    ELSE IF x.t = "int" THEN [ok |-> TRUE, toks |-> <<IntToken(x.n)>>]
    ELSE IF x.t = "float"
    THEN [ok |-> TRUE,
          toks |-> <<IntToken(x.n \div 10), ".", IntToken(x.n % 10)>>]
    ELSE IF x.t = "str" THEN [ok |-> TRUE, toks |-> <<"\"">> \o x.s \o <<"\"">>]
    ELSE IF x.t = "list"
    THEN LET r == DumpsItems(x.l, 1)
         IN  [ok |-> r.ok, toks |-> <<"[">> \o r.toks \o <<"]">>]
    ELSE IF x.t = "dict"
    THEN LET r == DumpsMembers(x.d, KeySeq(DOMAIN x.d))
         IN  [ok |-> r.ok, toks |-> <<"{">> \o r.toks \o <<"}">>]
    ELSE [ok |-> FALSE, toks |-> <<>>]

\* json.loads: a recursive-descent parse of the tokens from position i,
\* giving [ok, val, next]; ok = FALSE is the JSONDecodeError
JsonFail == [ok |-> FALSE, val |-> PyNone, next |-> 0]

\* the position of the quote that closes the string opened before i, or 0
RECURSIVE ClosingQuote(_, _)
ClosingQuote(toks, i) ==
    IF i > Len(toks) THEN 0
    ELSE IF toks[i] = "\"" THEN i
    ELSE ClosingQuote(toks, i + 1)

RECURSIVE LoadsValue(_, _)
RECURSIVE LoadsItems(_, _, _)
RECURSIVE LoadsMembers(_, _, _)

\* the items of an array after "[" or ",", acc the items read so far
LoadsItems(toks, i, acc) ==
    LET h == LoadsValue(toks, i)
    IN  IF ~h.ok \/ h.next > Len(toks) THEN JsonFail
        ELSE IF toks[h.next] = "]"
        THEN [ok |-> TRUE, val |-> PyList(Append(acc, h.val)), next |-> h.next + 1]
        ELSE IF toks[h.next] = ","
        THEN LoadsItems(toks, h.next + 1, Append(acc, h.val))
        ELSE JsonFail

\* the members of an object after "{" or ",", acc the mapping read so far
\* (a repeated key keeps its last value)
LoadsMembers(toks, i, acc) ==
    IF i + 3 > Len(toks) \/ toks[i] # "\"" \/ toks[i + 2] # "\"" \/ toks[i + 3] # ":"
    THEN JsonFail
    ELSE LET key == toks[i + 1]
             h == LoadsValue(toks, i + 4)
             more == [k \in DOMAIN acc \cup {key} |->
                        IF k = key THEN h.val ELSE acc[k]]
         IN  IF ~h.ok \/ h.next > Len(toks) THEN JsonFail
             ELSE IF toks[h.next] = "}"
             THEN [ok |-> TRUE, val |-> PyDict(more), next |-> h.next + 1]
             ELSE IF toks[h.next] = ","
             THEN LoadsMembers(toks, h.next + 1, more)
             ELSE JsonFail

LoadsValue(toks, i) ==
    IF i > Len(toks) THEN JsonFail
    ELSE IF toks[i] = "null" THEN [ok |-> TRUE, val |-> PyNone, next |-> i + 1]
    ELSE IF toks[i] = "true" THEN [ok |-> TRUE, val |-> PyBool(TRUE), next |-> i + 1]
    ELSE IF toks[i] = "false" THEN [ok |-> TRUE, val |-> PyBool(FALSE), next |-> i + 1]
    ELSE IF IsIntToken(toks[i])
    THEN IF i + 2 <= Len(toks) /\ toks[i + 1] = "." /\ IsIntToken(toks[i + 2])
         THEN [ok |-> TRUE,
               val |-> PyFloat(IntOfToken(toks[i]) * 10 + IntOfToken(toks[i + 2])),
               next |-> i + 3]
         ELSE [ok |-> TRUE, val |-> PyInt(IntOfToken(toks[i])), next |-> i + 1]
    ELSE IF toks[i] = "\""
    THEN LET j == ClosingQuote(toks, i + 1)
         IN  IF j = 0 THEN JsonFail
             ELSE [ok |-> TRUE, val |-> PyStr(SubSeq(toks, i + 1, j - 1)),
                   next |-> j + 1]
    ELSE IF toks[i] = "["
    THEN IF i + 1 <= Len(toks) /\ toks[i + 1] = "]"
         THEN [ok |-> TRUE, val |-> PyList(<<>>), next |-> i + 2]
         ELSE LoadsItems(toks, i + 1, <<>>)
    ELSE IF toks[i] = "{"
    THEN IF i + 1 <= Len(toks) /\ toks[i + 1] = "}"
         THEN [ok |-> TRUE, val |-> PyDict(<<>>), next |-> i + 2]
         ELSE LoadsMembers(toks, i + 1, <<>>)
    ELSE JsonFail

\* json.loads(s): one value and nothing after it
Loads(toks) ==
    LET r == LoadsValue(Strip(toks), 1)
    IN  IF r.ok /\ r.next = Len(Strip(toks)) + 1 THEN r ELSE JsonFail

\* --------------------------------------------------- parser._to_datetime
\* [ok, val]; ok = FALSE is the ValueError of fromisoformat or of the last
\* line.  Epoch numbers are seconds, inside the range fromtimestamp takes.
ParserToDatetimeNoNone(x) ==
    IF x.t = "datetime" THEN [ok |-> TRUE, val |-> x]
    ELSE IF IsNumber(x)
    THEN [ok |-> TRUE,
          val |-> PyDatetime(Instant((IF x.t = "bool" THEN 0 ELSE x.n) \div 60, FALSE))]
    ELSE IF x.t = "str"
    THEN LET r == FromIsoformat(RewriteZ(x.s))
         IN  [ok |-> r.ok, val |-> PyDatetime(r.val)]
    ELSE [ok |-> FALSE, val |-> PyNone]

ParserToDatetime(x) ==
    IF x.t = "NoneType" THEN [ok |-> TRUE, val |-> PyNone]
    ELSE IF x.t = "datetime" THEN [ok |-> TRUE, val |-> x]
    ELSE IF IsNumber(x)
    THEN [ok |-> TRUE,
          val |-> PyDatetime(Instant((IF x.t = "bool" THEN 0 ELSE x.n) \div 60, FALSE))]
    ELSE IF x.t = "str"
    THEN LET r == FromIsoformat(RewriteZ(x.s))
         IN  [ok |-> r.ok, val |-> PyDatetime(r.val)]
    ELSE [ok |-> FALSE, val |-> PyNone]

\* ------------------------------------------------------------ parser.parse
EmptyDict == PyDict(<<>>)

\* dict.get(key): None for a missing key
Get(d, key) == IF key \in DOMAIN d THEN d[key] ELSE PyNone

extract_sensors(payload) ==
    IF Get(payload, "sensors").t = "dict" THEN Get(payload, "sensors") ELSE EmptyDict

extract_metadata(payload) ==
    IF Get(payload, "telemetry_metadata").t = "dict"
    THEN Get(payload, "telemetry_metadata") ELSE EmptyDict

NoPacket == PyNone

\* parse(json_data): [ok, exc, val]; ok = FALSE is an exception leaving
\* parse, exc its class
parse(json_data) ==
    LET decoded == IF json_data.t = "str" THEN Loads(json_data.s)
                   ELSE [ok |-> TRUE, val |-> json_data, next |-> 0]
        payload == decoded.val
    IN  IF json_data.t \notin {"str", "dict"}
        THEN [ok |-> FALSE, exc |-> "ValueError", val |-> NoPacket]
        ELSE IF ~decoded.ok
        THEN [ok |-> FALSE, exc |-> "JSONDecodeError", val |-> NoPacket]
        ELSE IF payload.t # "dict"
        THEN [ok |-> FALSE, exc |-> "AttributeError", val |-> NoPacket]
        ELSE IF ~ParserToDatetime(Get(payload.d, "timestamp")).ok
        THEN [ok |-> FALSE, exc |-> "ValueError", val |-> NoPacket]
        ELSE [ok |-> TRUE, exc |-> "",
              val |-> PyDict(
                 [timestamp |-> ParserToDatetime(Get(payload.d, "timestamp")).val,
                  session_id |-> Get(payload.d, "session_id"),
                  vehicle_id |-> Get(payload.d, "vehicle_id"),
                  sensors |-> extract_sensors(payload.d),
                  telemetry_metadata |-> extract_metadata(payload.d),
                  raw_payload |-> payload])]

\* ----------------------------------------------------------- parser.format
\* bool(x) is False
Falsy(x) ==
    \/ x.t = "NoneType"
    \/ x.t = "bool" /\ ~x.b
    \/ x.t \in {"int", "float"} /\ x.n = 0
    \/ x.t = "str" /\ Len(x.s) = 0
    \/ x.t = "list" /\ Len(x.l) = 0
    \/ x.t = "dict" /\ DOMAIN x.d = {}

\* x or {}
OrEmpty(x) == IF Falsy(x) THEN EmptyDict ELSE x

\* for key, value in telemetry_metadata.items(): packet_row[key] = value
Flatten(packet_row, telemetry_metadata) ==
    [k \in DOMAIN packet_row \cup DOMAIN telemetry_metadata |->
        IF k \in DOMAIN telemetry_metadata THEN telemetry_metadata[k]
        ELSE packet_row[k]]

\* a mapping key as a str value: the empty key has no characters
KeyStr(k) == IF k = "" THEN <<>> ELSE <<k>>

\* the sensor rows, one per entry of the sensor mapping
SensorRows(packet_row, sensor_map) ==
    LET names == KeySeq(DOMAIN sensor_map)
    IN  [i \in 1..Len(names) |->
            PyDict([timestamp |-> packet_row["timestamp"],
                    session_id |-> packet_row["session_id"],
                    vehicle_id |-> packet_row["vehicle_id"],
                    sensor_name |-> PyStr(KeyStr(names[i])),
                    value |-> sensor_map[names[i]]])]

\* format(parsed_payload): [ok, exc, packet, sensors]
format(parsed_payload) ==
    LET raw_payload == OrEmpty(Get(parsed_payload, "raw_payload"))
        telemetry_metadata == OrEmpty(Get(parsed_payload, "telemetry_metadata"))
        sensor_map == OrEmpty(Get(parsed_payload, "sensors"))
        dumped == Dumps(raw_payload)
        packet_row ==
            Flatten([timestamp |-> Get(parsed_payload, "timestamp"),
                     session_id |-> Get(parsed_payload, "session_id"),
                     vehicle_id |-> Get(parsed_payload, "vehicle_id"),
                     raw_payload |-> PyStr(dumped.toks)],
                    telemetry_metadata.d)
    IN  IF ~dumped.ok
        THEN [ok |-> FALSE, exc |-> "TypeError", packet |-> <<>>, sensors |-> <<>>]
        ELSE [ok |-> TRUE, exc |-> "", packet |-> packet_row,
              sensors |-> SensorRows(packet_row, sensor_map.d)]

\* ------------------------------------------- validator.validate_timestamp
\* An error message is a sequence of words: the fixed text and the field,
\* index or type name formatted into it.
\* 'T' in timestamp_str
ContainsT(s) == \E i \in 1..Len(s) : s[i] = "T"

\* timestamp_str.replace('Z', '+00:00'): every Z, wherever it stands, and
\* no strip()
ReplaceZ(s) == [i \in 1..Len(s) |-> IF s[i] = "Z" THEN "+00:00" ELSE s[i]]

\* (mutant) no check for the time component
ValidateTimestampNoTimeCheck(timestamp_str) ==
    IF ~IsStr(timestamp_str)
    THEN [ok |-> FALSE,
          error |-> <<"Timestamp must be a string, got", timestamp_str.t>>]
    ELSE IF FromIsoformat(ReplaceZ(timestamp_str.s)).ok
    THEN [ok |-> TRUE, error |-> <<>>]
    ELSE [ok |-> FALSE, error |-> <<"Invalid ISO 8601 timestamp format", "Error">>]

\* (is_valid, error_message); error <<>> stands for ""
validate_timestamp(timestamp_str) ==
    IF ~IsStr(timestamp_str)
    THEN [ok |-> FALSE,
          error |-> <<"Timestamp must be a string, got", timestamp_str.t>>]
    ELSE IF ~ContainsT(timestamp_str.s)
    THEN [ok |-> FALSE,
          error |-> <<"Invalid ISO 8601 timestamp format",
                      "Must include time component">>]
    ELSE IF FromIsoformat(ReplaceZ(timestamp_str.s)).ok
    THEN [ok |-> TRUE, error |-> <<>>]
    ELSE [ok |-> FALSE, error |-> <<"Invalid ISO 8601 timestamp format", "Error">>]

\* --------------------------------------------- validator.validate_sensors
sensor_required_fields == <<"sensor_id", "type", "value", "unit">>

valid_types == {"temperature", "humidity", "pressure", "light", "motion",
                "proximity", "accelerometer", "gyroscope"}

\* str.lower()
LowerToken(tok) ==
    CASE tok = "Temperature" -> "temperature"
      [] tok = "HUMIDITY" -> "humidity"
      [] OTHER -> tok

Lower(s) == [i \in 1..Len(s) |-> LowerToken(s[i])]

\* a number in tenths (True is 1, False is 0)
Tenths(x) ==
    IF x.t = "bool" THEN (IF x.b THEN 10 ELSE 0)
    ELSE IF x.t = "int" THEN x.n * 10
    ELSE x.n

\* for field in required_fields: if field not in d: errors.append(...)
MissingFields(fields, d) ==
    LET Missing(f) == f \notin DOMAIN d IN SelectSeq(fields, Missing)

MissingErrors(prefix, fields, d) ==
    LET m == MissingFields(fields, d)
    IN  [i \in 1..Len(m) |-> prefix \o <<"missing required field", m[i]>>]

\* One pass of the loop body for the sensor at index idx: the errors it
\* appends, and whether it raises (sensor.get('type', '').lower() on a
\* type that is not a str is an AttributeError).
SensorErrors(idx, sensor) ==
    LET at == <<"Sensor at index", ToString(idx)>>
    IN  IF sensor.t # "dict"
        THEN [raised |-> FALSE,
              errors |-> << at \o <<"must be a dictionary, got", sensor.t>> >>]
        ELSE
        LET d == sensor.d
            missing == MissingErrors(at, sensor_required_fields, d)
            idErrors ==
                IF "sensor_id" \notin DOMAIN d THEN <<>>
                ELSE IF ~IsStr(d["sensor_id"])
                THEN << at \o <<"sensor_id must be a string">> >>
                ELSE IF Strip(d["sensor_id"].s) = <<>>
                THEN << at \o <<"sensor_id cannot be empty">> >>
                ELSE <<>>
            typeErrors ==
                IF "type" \notin DOMAIN d THEN <<>>
                ELSE IF ~IsStr(d["type"])
                THEN << at \o <<"type must be a string">> >>
                ELSE IF \/ Len(d["type"].s) # 1
                        \/ Lower(d["type"].s)[1] \notin valid_types
                THEN << at \o <<"type is not a recognized sensor type">> >>
                ELSE <<>>
            numeric == "value" \in DOMAIN d /\ IsNumber(d["value"])
            raises == numeric /\ "type" \in DOMAIN d /\ ~IsStr(d["type"])
            sensor_type == IF "type" \in DOMAIN d THEN Lower(d["type"].s) ELSE <<>>
            value == Tenths(d["value"])
            valueErrors ==
                IF "value" \notin DOMAIN d THEN <<>>
                ELSE IF ~numeric
                THEN << at \o <<"value must be a number (int or float)">> >>
                ELSE IF sensor_type = <<"temperature">>
                        \* value < -273.15 or value > 1000
                        /\ (value < -2731 \/ value > 10000)
                THEN << at \o <<"temperature value is out of acceptable range">> >>
                ELSE IF sensor_type = <<"humidity">> /\ (value < 0 \/ value > 1000)
                THEN << at \o <<"humidity value is out of acceptable range">> >>
                ELSE IF sensor_type = <<"pressure">> /\ (value < 0 \/ value > 20000)
                THEN << at \o <<"pressure value is out of acceptable range">> >>
                ELSE IF sensor_type = <<"light">> /\ value < 0
                THEN << at \o <<"light value cannot be negative">> >>
                ELSE <<>>
            unitErrors ==
                IF "unit" \in DOMAIN d /\ ~IsStr(d["unit"])
                THEN << at \o <<"unit must be a string">> >>
                ELSE <<>>
            timestampErrors ==
                IF "timestamp" \in DOMAIN d /\ ~validate_timestamp(d["timestamp"]).ok
                THEN << at \o validate_timestamp(d["timestamp"]).error >>
                ELSE <<>>
        IN  IF raises
            THEN [raised |-> TRUE, errors |-> missing \o idErrors \o typeErrors]
            ELSE [raised |-> FALSE,
                  errors |-> missing \o idErrors \o typeErrors \o valueErrors
                             \o unitErrors \o timestampErrors]

\* for idx, sensor in enumerate(sensor_data), from the sensor at position i
RECURSIVE SensorLoop(_, _, _)
SensorLoop(sensor_data, i, errors) ==
    IF i > Len(sensor_data) THEN [raised |-> FALSE, errors |-> errors]
    ELSE LET r == SensorErrors(i - 1, sensor_data[i])
         IN  IF r.raised THEN [raised |-> TRUE, errors |-> errors \o r.errors]
             ELSE SensorLoop(sensor_data, i + 1, errors \o r.errors)

\* validate_sensors(sensor_data): [raised, ok, errors]; raised = TRUE is an
\* exception leaving the function, and then nothing is returned
validate_sensors(sensor_data) ==
    IF sensor_data.t = "NoneType"
    THEN [raised |-> FALSE, ok |-> FALSE, errors |-> << <<"Sensor data is missing">> >>]
    ELSE IF sensor_data.t # "list"
    THEN [raised |-> FALSE, ok |-> FALSE,
          errors |-> << <<"Sensor data must be a list, got", sensor_data.t>> >>]
    ELSE IF Len(sensor_data.l) = 0
    THEN [raised |-> FALSE, ok |-> FALSE,
          errors |-> << <<"Sensor data list cannot be empty">> >>]
    ELSE LET r == SensorLoop(sensor_data.l, 1, <<>>)
         IN  [raised |-> r.raised, ok |-> ~r.raised /\ Len(r.errors) = 0,
              errors |-> r.errors]

\* -------------------------------------------- validator.validate_metadata
metadata_required_fields == <<"device_id", "location">>

\* the checks of one coordinate of location
CoordinateErrors(location, name, limit) ==
    IF name \notin DOMAIN location
    THEN << <<"Metadata: location missing", name>> >>
    ELSE IF ~IsNumber(location[name])
    THEN << <<"Metadata: location must be a number", name>> >>
    ELSE IF Tenths(location[name]) < -limit * 10 \/ Tenths(location[name]) > limit * 10
    THEN << <<"Metadata: location is out of range", name>> >>
    ELSE <<>>

\* validate_metadata(metadata): [ok, errors]
validate_metadata(metadata) ==
    IF metadata.t = "NoneType"
    THEN [ok |-> FALSE, errors |-> << <<"Metadata is missing">> >>]
    ELSE IF metadata.t # "dict"
    THEN [ok |-> FALSE,
          errors |-> << <<"Metadata must be a dictionary, got", metadata.t>> >>]
    ELSE
    LET d == metadata.d
        missing == MissingErrors(<<"Metadata">>, metadata_required_fields, d)
        deviceErrors ==
            IF "device_id" \notin DOMAIN d THEN <<>>
            ELSE IF ~IsStr(d["device_id"])
            THEN << <<"Metadata: device_id must be a string">> >>
            ELSE IF Strip(d["device_id"].s) = <<>>
            THEN << <<"Metadata: device_id cannot be empty">> >>
            ELSE <<>>
        locationErrors ==
            IF "location" \notin DOMAIN d THEN <<>>
            ELSE IF d["location"].t # "dict"
            THEN << <<"Metadata: location must be a dictionary, got", d["location"].t>> >>
            ELSE CoordinateErrors(d["location"].d, "latitude", 90)
                 \o CoordinateErrors(d["location"].d, "longitude", 180)
        firmwareErrors ==
            IF "firmware_version" \in DOMAIN d /\ ~IsStr(d["firmware_version"])
            THEN << <<"Metadata: firmware_version must be a string">> >>
            ELSE <<>>
        batteryErrors ==
            IF "battery_level" \notin DOMAIN d THEN <<>>
            ELSE IF ~IsNumber(d["battery_level"])
            THEN << <<"Metadata: battery_level must be a number">> >>
            ELSE IF Tenths(d["battery_level"]) < 0 \/ Tenths(d["battery_level"]) > 1000
            THEN << <<"Metadata: battery_level is out of range">> >>
            ELSE <<>>
        errors == missing \o deviceErrors \o locationErrors \o firmwareErrors
                  \o batteryErrors
    IN  [ok |-> Len(errors) = 0, errors |-> errors]

\* --------------------------------------------- validator.validate_payload
payload_required_fields == <<"timestamp", "sensors", "metadata">>

\* `field in data` for the value json.loads returned: a key of a mapping,
\* an item of a list, a substring of a str; a TypeError for a number, a
\* boolean or None.
Iterable(data) == data.t \in {"dict", "list", "str"}

In(field, data) ==
    IF data.t = "dict" THEN field \in DOMAIN data.d
    ELSE IF data.t = "list"
    THEN \E i \in 1..Len(data.l) : IsStr(data.l[i]) /\ data.l[i].s = <<field>>
    ELSE \E i \in 1..Len(data.s) : data.s[i] = field

\* validate_payload(json_data): [raised, exc, ok, errors]; raised = TRUE is
\* an exception of class exc leaving the function, and then nothing is
\* returned
validate_payload(json_data) ==
    LET decoded == IF json_data.t = "str" THEN Loads(json_data.s)
                   ELSE [ok |-> TRUE, val |-> json_data, next |-> 0]
        data == decoded.val
        Returned(errors) ==
            [raised |-> FALSE, exc |-> "", ok |-> Len(errors) = 0, errors |-> errors]
        Raised(exc) ==
            [raised |-> TRUE, exc |-> exc, ok |-> FALSE, errors |-> <<>>]
    IN  IF json_data.t \notin {"str", "dict"}
        THEN Returned(<< <<"Payload must be a JSON string or dictionary, got",
                           json_data.t>> >>)
        ELSE IF ~decoded.ok
        THEN Returned(<< <<"Invalid JSON format">> >>)
        ELSE IF ~Iterable(data)
        THEN Raised("TypeError")     \* field not in data
        ELSE IF data.t # "dict"
        THEN
            LET Missing(f) == ~In(f, data)
                m == SelectSeq(payload_required_fields, Missing)
            IN  IF Len(m) < Len(payload_required_fields)
                THEN Raised("TypeError")     \* data[field]
                ELSE Returned([i \in 1..Len(m) |->
                        <<"Payload", "missing required field", m[i]>>])
        ELSE
        LET missing == MissingErrors(<<"Payload">>, payload_required_fields, data.d)
            ts == IF "timestamp" \in DOMAIN data.d
                  THEN validate_timestamp(data.d["timestamp"])
                  ELSE [ok |-> TRUE, error |-> <<>>]
            tsErrors == IF ts.ok THEN <<>> ELSE << <<"Payload">> \o ts.error >>
            sensors == IF "sensors" \in DOMAIN data.d
                       THEN validate_sensors(data.d["sensors"])
                       ELSE [raised |-> FALSE, ok |-> TRUE, errors |-> <<>>]
            metadata == IF "metadata" \in DOMAIN data.d
                        THEN validate_metadata(data.d["metadata"])
                        ELSE [ok |-> TRUE, errors |-> <<>>]
        IN  IF sensors.raised THEN Raised("AttributeError")
            ELSE Returned(missing \o tsErrors \o sensors.errors \o metadata.errors)

\* -------------------------------------------------------------------- state
VARIABLES
    store,      \* committed rows of sensor_readings
    pending,    \* pending[c]: rows written by c's open transaction
    connLost,   \* connLost[c]: c's connection to the store is lost
    pc,         \* pc[c]: where caller c is inside its insert call
    cur,        \* cur[c]: the locals of c's running call
    log,        \* log[c]: the calls c has completed, oldest first
    calls,      \* calls started so far
    faults,     \* failures the store has reported spontaneously
    inputs,     \* which set of calls the callers may issue (see Inputs)
    callers,    \* the callers that issue calls
    faultKinds, \* the exceptions a spontaneous store failure may raise
    parser,     \* the parser's run: its input, stage and results
    validator   \* a run of one validation or normalization function

vars == <<store, pending, connLost, pc, cur, log, calls, faults, inputs, callers,
          faultKinds, parser, validator>>

Callers == 1..NumCallers

\* the natural key of a normalized row (timestamp, session_id, vehicle_id,
\* sensor_name)
NaturalKey(row) == <<row[1], row[2], row[3], row[4]>>

\* a stored row remembers the call that wrote it
StoredRow(row, no) == [key |-> NaturalKey(row), value |-> row[5], by |-> no]

Keys(S) == {r.key : r \in S}

NoCall ==
    [op |-> "", no |-> 0, handle |-> "", data |-> PyNone, overlap |-> FALSE,
     rows |-> <<>>, idx |-> 0, inserted_count |-> 0, exc |-> "", nExec |-> 0,
     execRaised |-> FALSE, commitRaised |-> FALSE]

\* ---------------------------------------------------------------- the store
\* (mutant) the insert never detects a conflict
RowCountNoConflictCheck(c, row) == 1

\* INSERT ... ON CONFLICT DO NOTHING under a uniqueness constraint on the
\* natural key: the affected-row count is 0 when a committed row, or a row
\* of the same transaction, already holds the key, and 1 otherwise.

RowCount(c, row) ==
    IF NaturalKey(row) \in Keys(store) \cup Keys(pending[c]) THEN 0 ELSE 1

\* The insert waits while another open transaction holds an uncommitted row
\* with the same key.
WaitsFor(c, d) ==
    /\ c # d
    /\ pc[c] = "execute"
    /\ NaturalKey(cur[c].rows[cur[c].idx]) \notin Keys(store)
    /\ NaturalKey(cur[c].rows[cur[c].idx]) \in Keys(pending[d])

RECURSIVE WaitClosure(_)
WaitClosure(S) ==
    LET T == S \cup {d \in Callers : \E c \in S : WaitsFor(c, d)}
    IN  IF T = S THEN S ELSE WaitClosure(T)

\* c waits, directly or not, for a transaction that waits for c
Deadlocked(c) ==
    \E d \in Callers : WaitsFor(c, d) /\ c \in WaitClosure({d})

\* The store accepts only an instant in the timestamp column.
StoreAccepts(row) == row[1].t = "datetime"

\* --------------------------------------------------------------- the results
\* The record of a completed call: what was asked (op, handle, data), what
\* was returned (ok, msg, index, reason, inserted, skipped; raised when an
\* exception left the call instead) and what the call did to the store.
Result(k, ok, msg, index, reason, inserted, skipped, committed, rolledBack) ==
    [op |-> k.op, no |-> k.no, handle |-> k.handle, data |-> k.data,
     overlap |-> k.overlap, rows |-> k.rows, ok |-> ok, msg |-> msg,
     index |-> index, reason |-> reason, inserted |-> inserted,
     skipped |-> skipped, nExec |-> k.nExec, execRaised |-> k.execRaised,
     commitRaised |-> k.commitRaised, committed |-> committed,
     rolledBack |-> rolledBack, raised |-> FALSE]

\* ------------------------------------------------------------------ insert_*
\* (mutant) the last failing row is reported instead of the first
LastBadRow(s) ==
    IF \E i \in 1..Len(s) : NormalizeRow(s[i]).error # ""
    THEN CHOOSE i \in 1..Len(s) :
            /\ NormalizeRow(s[i]).error # ""
            /\ \A j \in (i + 1)..Len(s) : NormalizeRow(s[j]).error = ""
    ELSE 0

\* The index of the first row of a batch that fails the shape check, or 0
\* (indices here are 1-based; the message carries index - 1).
FirstBadRow(s) ==
    IF \E i \in 1..Len(s) : NormalizeRow(s[i]).error # ""
    THEN CHOOSE i \in 1..Len(s) :
            /\ NormalizeRow(s[i]).error # ""
            /\ \A j \in 1..(i - 1) : NormalizeRow(s[j]).error = ""
    ELSE 0

\* What a call returns before touching the store, as <<msg, index, reason>>,
\* or <<"">> when the call goes on to the store.
EarlyReturn(inp) ==
    IF inp.handle = "None" THEN <<"connection object is None", 0, "">>
    ELSE IF inp.op = "insert_single"
    THEN IF NormalizeRow(inp.data).error # ""
         THEN <<"row rejected", 0, NormalizeRow(inp.data).error>>
         ELSE <<"">>
    ELSE IF inp.data.t # "list" \/ inp.data.l = <<>>
    THEN <<"data_list must be a non-empty list", 0, "">>
    ELSE IF FirstBadRow(inp.data.l) # 0
    THEN <<"Row", FirstBadRow(inp.data.l) - 1,
           NormalizeRow(inp.data.l[FirstBadRow(inp.data.l)]).error>>
    ELSE <<"">>

NormalizedRows(inp) ==
    IF inp.op = "insert_single" THEN <<NormalizeRow(inp.data).row>>
    ELSE [i \in 1..Len(inp.data.l) |-> NormalizeRow(inp.data.l[i]).row]

\* insert_batch(conn, formatted['sensors']): the sensor rows format gave,
\* once it has given them
FormattedInputs ==
    IF parser.stage = "formatted" /\ parser.formatted.ok
    THEN {[op |-> "insert_batch", handle |-> "conn",
           data |-> PyList(parser.formatted.sensors)]}
    ELSE {}

\* The calls a caller may issue in the current behaviour.
Inputs ==
    CASE inputs = "well-shaped" -> ConcInputs
      [] inputs = "any-shape" -> ShapeInputs
      [] inputs = "formatted" -> FormattedInputs
      [] OTHER -> {}

\* insert_single / insert_batch up to the try block
Call(c) ==
    /\ c \in callers
    /\ pc[c] = "idle"
    /\ calls < MaxCalls
    /\ \E inp \in Inputs :
         LET early == EarlyReturn(inp)
             started == [NoCall EXCEPT
                            !.op = inp.op, !.no = calls + 1,
                            !.handle = inp.handle, !.data = inp.data,
                            !.overlap = \E d \in Callers \ {c} : pc[d] # "idle"]
         IN  IF early # <<"">>
             THEN /\ log' = [log EXCEPT ![c] = Append(@,
                        Result(started, FALSE, early[1], early[2], early[3],
                               0, 0, FALSE, FALSE))]
                  /\ UNCHANGED <<pc, cur>>
             ELSE /\ cur' = [cur EXCEPT ![c] =
                        [started EXCEPT !.rows = NormalizedRows(inp), !.idx = 1]]
                  /\ pc' = [pc EXCEPT ![c] = "cursor"]
                  /\ UNCHANGED log
    /\ calls' = calls + 1
    /\ UNCHANGED <<store, pending, connLost, faults, inputs, callers, faultKinds, parser, validator>>

\* (mutant) conn.commit() sits after the try block
TrySitesWithoutCommit == {"cursor", "execute"}

\* The calls of an insert function that sit inside its try block
\* (conn.cursor(), cur.execute(), conn.commit()), whose exceptions reach
\* the except clause.

TrySites == {"cursor", "execute", "commit"}

\* (mutant) the rollback of the except clause is not wrapped
RollbackUnguarded == FALSE

\* The rollback of the except clause is itself wrapped in try/except: pass.

RollbackGuarded == TRUE

\* c's call ends by propagating an exception to its caller
Propagate(c, k, kind) ==
    /\ log' = [log EXCEPT ![c] = Append(@,
          [Result(k, FALSE, "", 0, kind, 0, 0, FALSE, FALSE)
             EXCEPT !.raised = TRUE])]
    /\ pc' = [pc EXCEPT ![c] = "idle"]
    /\ cur' = [cur EXCEPT ![c] = NoCall]

\* A call to the store at `site` raises `kind`: inside the try block the
\* except clause is next, outside it the exception leaves the call.
Raise(c, site, kind) ==
    LET k == [cur[c] EXCEPT !.exc = kind,
                            !.nExec = @ + (IF site = "execute" THEN 1 ELSE 0),
                            !.execRaised = @ \/ site = "execute",
                            !.commitRaised = @ \/ site = "commit"]
    IN  IF site \in TrySites
        THEN /\ cur' = [cur EXCEPT ![c] = k]
             /\ pc' = [pc EXCEPT ![c] = "except"]
             /\ UNCHANGED log
        ELSE Propagate(c, k, kind)

\* The store reports a failure of its own accord; an operational failure
\* may be the loss of the connection.
Fault(c, site) ==
    /\ faults < MaxFaults
    /\ faults' = faults + 1
    /\ \E kind \in faultKinds, lost \in BOOLEAN :
         /\ lost => kind = "OperationalError"
         /\ connLost' = [connLost EXCEPT ![c] = lost]
         /\ Raise(c, site, kind)

\* with conn.cursor() as cur:
Cursor(c) ==
    /\ c \in callers
    /\ pc[c] = "cursor"
    /\ IF connLost[c]
       THEN Raise(c, "cursor", "OperationalError")
       ELSE /\ pc' = [pc EXCEPT ![c] = "execute"]
            /\ UNCHANGED <<cur, log>>
    /\ UNCHANGED <<store, pending, connLost, calls, faults, inputs, callers, faultKinds, parser, validator>>

CursorRaises(c) ==
    /\ c \in callers
    /\ pc[c] = "cursor"
    /\ ~connLost[c]
    /\ Fault(c, "cursor")
    /\ UNCHANGED <<store, pending, calls, inputs, callers, faultKinds, parser, validator>>

\* (mutant) the batch counts every executed row as inserted
CountEveryExecute(op, count, rc) ==
    IF op = "insert_single" THEN rc ELSE count + 1

\* inserted_count after an execute that affected rc rows: insert_single
\* keeps the last rowcount, insert_batch counts the rows with rowcount 1
CountAfter(op, count, rc) ==
    IF op = "insert_single" THEN rc ELSE IF rc = 1 THEN count + 1 ELSE count

\* cur.execute(INSERT_SQL, row), and the step to the next row or to commit
Execute(c) ==
    /\ c \in callers
    /\ pc[c] = "execute"
    /\ LET row == cur[c].rows[cur[c].idx]
           rc == RowCount(c, row)
       IN  IF ~StoreAccepts(row)
           THEN /\ \E kind \in {"IntegrityError", "DataError", "ProgrammingError"} :
                     Raise(c, "execute", kind)
                /\ UNCHANGED pending
           ELSE /\ \A d \in Callers : ~WaitsFor(c, d)
                /\ pending' = [pending EXCEPT ![c] =
                      IF rc = 1 THEN @ \cup {StoredRow(row, cur[c].no)} ELSE @]
                /\ cur' = [cur EXCEPT
                      ![c].inserted_count = CountAfter(cur[c].op, @, rc),
                      ![c].nExec = @ + 1,
                      ![c].idx = @ + 1]
                /\ pc' = [pc EXCEPT ![c] =
                      IF cur[c].idx = Len(cur[c].rows) THEN "commit" ELSE "execute"]
                /\ UNCHANGED log
    /\ UNCHANGED <<store, connLost, calls, faults, inputs, callers, faultKinds, parser, validator>>

ExecuteRaises(c) ==
    /\ c \in callers
    /\ pc[c] = "execute"
    /\ Fault(c, "execute")
    /\ UNCHANGED <<store, pending, calls, inputs, callers, faultKinds, parser, validator>>

\* The store breaks a cycle of transactions waiting for one another by
\* aborting one of them: its execute raises (deadlock_detected is an
\* OperationalError) and its uncommitted rows are gone.
DeadlockAbort(c) ==
    /\ c \in callers
    /\ pc[c] = "execute"
    /\ Deadlocked(c)
    /\ Raise(c, "execute", "OperationalError")
    /\ pending' = [pending EXCEPT ![c] = {}]
    /\ UNCHANGED <<store, connLost, calls, faults, inputs, callers, faultKinds, parser, validator>>

\* (mutant) insert_single reports an insert whatever the rowcount
SuccessAlwaysInserted(c) ==
    IF cur[c].op = "insert_single"
    THEN Result(cur[c], TRUE, "Inserted 1 sensor reading", 0, "", 1, 0,
                TRUE, FALSE)
    ELSE Result(cur[c], TRUE, "Batch insert complete", 0, "",
                cur[c].inserted_count,
                Len(cur[c].rows) - cur[c].inserted_count, TRUE, FALSE)

\* What the call returns after a successful commit
Success(c) ==
    IF cur[c].op = "insert_single"
    THEN Result(cur[c], TRUE,
                IF cur[c].inserted_count = 1 THEN "Inserted 1 sensor reading"
                ELSE "Duplicate sensor reading skipped",
                0, "", cur[c].inserted_count, 1 - cur[c].inserted_count,
                TRUE, FALSE)
    ELSE Result(cur[c], TRUE, "Batch insert complete", 0, "",
                cur[c].inserted_count,
                Len(cur[c].rows) - cur[c].inserted_count, TRUE, FALSE)

\* conn.commit() and the return of the success message
Commit(c) ==
    /\ c \in callers
    /\ pc[c] = "commit"
    /\ store' = store \cup pending[c]
    /\ pending' = [pending EXCEPT ![c] = {}]
    /\ log' = [log EXCEPT ![c] = Append(@, Success(c))]
    /\ pc' = [pc EXCEPT ![c] = "idle"]
    /\ cur' = [cur EXCEPT ![c] = NoCall]
    /\ UNCHANGED <<connLost, calls, faults, inputs, callers, faultKinds, parser, validator>>

CommitRaises(c) ==
    /\ c \in callers
    /\ pc[c] = "commit"
    /\ Fault(c, "commit")
    /\ UNCHANGED <<store, pending, calls, inputs, callers, faultKinds, parser, validator>>

\* (mutant) the except clause does not roll back
KeepPending(c) == pending

\* conn.rollback(): the transaction's rows are discarded.  On a lost
\* connection rollback() raises, and the store has dropped the session's
\* transaction by itself.

Rollback(c) == [pending EXCEPT ![c] = {}]

\* except Exception as e: try: conn.rollback() except Exception: pass;
\* return handle_insert_error(e)
Except(c) ==
    /\ c \in callers
    /\ pc[c] = "except"
    /\ pending' = Rollback(c)
    /\ IF connLost[c] /\ ~RollbackGuarded
       THEN Propagate(c, cur[c], "OperationalError")
       ELSE /\ log' = [log EXCEPT ![c] = Append(@,
                  Result(cur[c], FALSE, handle_insert_error(cur[c].exc), 0,
                         cur[c].exc, 0, 0, FALSE, TRUE))]
            /\ pc' = [pc EXCEPT ![c] = "idle"]
            /\ cur' = [cur EXCEPT ![c] = NoCall]
    /\ UNCHANGED <<store, connLost, calls, faults, inputs, callers, faultKinds, parser, validator>>

\* ------------------------------------------------------------ specifications
InitCommon ==
    /\ pending = [c \in Callers |-> {}]
    /\ connLost = [c \in Callers |-> FALSE]
    /\ pc = [c \in Callers |-> "idle"]
    /\ cur = [c \in Callers |-> NoCall]
    /\ log = [c \in Callers |-> <<>>]
    /\ faults = 0

NoValidation == [stage |-> "none", input |-> PyNone, fn |-> "", result |-> <<>>]

NoParse == [stage |-> "none", input |-> PyNone, parsed |-> <<>>, formatted |-> <<>>]

\* Several callers, each on its own connection, inserting well-shaped rows
\* into an empty table.
Init ==
    /\ InitCommon
    /\ store = {}
    /\ calls = 0
    /\ inputs = "well-shaped"
    /\ callers = Callers
    /\ faultKinds = {"OperationalError"}
    /\ parser = NoParse
    /\ validator = NoValidation

Next ==
    \E c \in Callers :
        \/ Call(c)
        \/ Cursor(c)
        \/ CursorRaises(c)
        \/ Execute(c)
        \/ ExecuteRaises(c)
        \/ DeadlockAbort(c)
        \/ Commit(c)
        \/ CommitRaises(c)
        \/ Except(c)

Spec == Init /\ [][Next]_vars

\* One caller issuing one call with an argument of any shape, on a table
\* that is empty or already holds reading A.
InitShape ==
    /\ InitCommon
    /\ store \in {{}, {StoredRow(NormalizeRow(RowA).row, 0)}}
    /\ calls = MaxCalls - 1
    /\ inputs = "any-shape"
    /\ callers = {1}
    /\ faultKinds = ErrorKinds
    /\ parser = NoParse
    /\ validator = NoValidation

NextShape ==
    \E c \in Callers :
        \/ Call(c)
        \/ Cursor(c)
        \/ CursorRaises(c)
        \/ Execute(c)
        \/ ExecuteRaises(c)
        \/ Commit(c)
        \/ CommitRaises(c)
        \/ Except(c)

SpecShape == InitShape /\ [][NextShape]_vars

\* ------------------------------------------------------- the parser's runs
Absent == [t |-> "absent", z |-> 0]

\* a mapping with the given fields, those that are Absent left out
Payload(ts, session, vehicle, sensors, metadata) ==
    LET all == [timestamp |-> ts, session_id |-> session, vehicle_id |-> vehicle,
                sensors |-> sensors, telemetry_metadata |-> metadata]
    IN  PyDict([k \in {f \in DOMAIN all : all[f] # Absent} |-> all[k]])

P1 == PyStr(<<"p", "1">>)

TimestampInputs ==
    {Absent, PyNone, TsZ, PyStr(<<"2024-01-15", "T", "10:30:00", "+00:00">>),
     PyStr(<<"2024-01-15">>), PyStr(<<"not-a-timestamp">>),
     PyInt(1705314600), PyList(<<>>), PyDatetime(I1)}

SessionInputs == {Absent, S1, PyInt(7)}

VehicleInputs == {Absent, V1}

SensorInputs ==
    {Absent, PyDict([engine_rpm |-> PyInt(4200)]),
     PyDict([engine_rpm |-> PyInt(4200), coolant_temp |-> PyFloat(941)]),
     PyDict([engine_rpm |-> PyBool(TRUE)]),
     PyDict([k \in {" "} |-> PyInt(1)]),
     EmptyDict,
     PyList(<<PyInt(1)>>)}

MetadataInputs ==
    {Absent, EmptyDict, PyDict([packet_id |-> P1]),
     PyDict([packet_id |-> P1, sample_rate_hz |-> PyInt(100)]),
     PyDict([raw_payload |-> P1]),
     PyDict([timestamp |-> PyStr(<<"2024-01-16", "T", "10:31:00", "Z">>)]),
     PyDict([packet_id |-> P1, session_id |-> PyStr(<<"s", "2">>),
             vehicle_id |-> PyNone]),
     P1}

PayloadInputs ==
    {Payload(ts, se, ve, sn, md) :
        ts \in TimestampInputs, se \in SessionInputs, ve \in VehicleInputs,
        sn \in SensorInputs, md \in MetadataInputs}

\* the payloads as mappings, the JSON encodings of those that have one,
\* texts that are not JSON or not the JSON of a mapping, and values that
\* are neither a mapping nor a string
ParseInputs ==
    PayloadInputs
    \cup {PyStr(Dumps(d).toks) : d \in {x \in PayloadInputs : Dumps(x).ok}}
    \cup {PyStr(<<"not", " ", "json">>), PyStr(<<>>), PyStr(<<"{", "\"", "a", "\"">>),
          PyStr(<<"[", "1", ",", "2", "]">>), PyStr(<<"null">>), PyStr(<<" ", "7", " ">>),
          PyNone, PyInt(7), PyList(<<>>)}

\* parsed = parse(input)
Parse ==
    /\ parser.stage = "input"
    /\ parser' = [parser EXCEPT !.stage = "parsed", !.parsed = parse(parser.input)]
    /\ UNCHANGED <<store, pending, connLost, pc, cur, log, calls, faults, inputs,
                   callers, faultKinds, validator>>

\* formatted = format(parsed)
Format ==
    /\ parser.stage = "parsed"
    /\ parser.parsed.ok
    /\ parser' = [parser EXCEPT !.stage = "formatted",
                                !.formatted = format(parser.parsed.val.d)]
    /\ UNCHANGED <<store, pending, connLost, pc, cur, log, calls, faults, inputs,
                   callers, faultKinds, validator>>

\* One run of format(parse(x)) on an input of the set above.
InitParse ==
    /\ InitCommon
    /\ store = {}
    /\ calls = 0
    /\ inputs = "none"
    /\ callers = {}
    /\ faultKinds = {}
    /\ parser \in [stage : {"input"}, input : ParseInputs, parsed : {<<>>},
                   formatted : {<<>>}]
    /\ validator = NoValidation

NextParse == Parse \/ Format

SpecParse == InitParse /\ [][NextParse]_vars

\* ---------------------------------------------------- the validator's runs
TsOffset == PyStr(<<"2024-01-15", "T", "10:30:00", "+00:00">>)
DateOnly == PyStr(<<"2024-01-15">>)
NotATimestamp == PyStr(<<"not-a-timestamp">>)

TimestampValues ==
    {TsZ, TsOffset, DateOnly, NotATimestamp,
     PyStr(<<"2024-01-16", "T", "10:31:00", "Z">>),
     PyStr(<<"2024-01-15", " ", "10:30:00">>),
     PyStr(<<" ", "2024-01-15", "T", "10:30:00", "Z", " ">>),
     PyStr(<<"2024-01-15", "T", "10:30:00", "+01:00">>),
     PyStr(<<"2024-01-15", "T">>), PyStr(<<"T">>), PyStr(<<"Z">>), PyStr(<<>>),
     PyInt(1705314600), PyInt(0), PyFloat(5), PyBool(TRUE), PyNone,
     PyDatetime(I1), PyDatetime(Instant(19737 * 1440, FALSE)),
     PyList(<<>>), EmptyDict}

\* one entry of a sensor list, the fields that are Absent left out
Reading(id, type, value, unit, ts) ==
    LET all == [sensor_id |-> id, type |-> type, value |-> value, unit |-> unit,
                timestamp |-> ts]
    IN  PyDict([k \in {f \in DOMAIN all : all[f] # Absent} |-> all[k]])

Word(w) == PyStr(<<w>>)

ReadingInputs ==
    {Reading(id, ty, va, un, ts) :
        id \in {Absent, Word("a"), PyStr(<<" ">>), PyInt(1)},
        ty \in {Absent, Word("temperature"), Word("Temperature"), Word("humidity"),
                Word("pressure"), Word("light"), Word("motion"), Word("bogus"),
                PyStr(<<>>), PyInt(5)},
        va \in {Absent, PyInt(5), PyInt(-1), PyInt(-300), PyFloat(-2731),
                PyFloat(-2732), PyInt(1001), PyInt(100), PyFloat(1001),
                PyInt(2001), PyBool(TRUE), Word("5"), PyNone},
        un \in {Absent, Word("C"), PyInt(1)},
        ts \in {Absent}}
    \cup {Reading(Word("a"), Word("temperature"), PyInt(5), Word("C"), ts) :
            ts \in {TsZ, DateOnly, PyInt(0)}}

GoodReading == Reading(Word("a"), Word("temperature"), PyInt(5), Word("C"), Absent)
BadReading == Reading(PyInt(1), Word("humidity"), PyInt(-1), Absent, Absent)
RaisingReading == Reading(Word("a"), PyInt(5), PyInt(5), Word("C"), Absent)

\* the 14 named sensor fields of the fixed-field telemetry schema, with the
\* values of test_validator's valid sample and the given engine_rpm
FixedSensors(engine_rpm) ==
    LET all == [engine_rpm |-> engine_rpm, throttle_position |-> PyFloat(1000),
                brake_pressure |-> PyFloat(0), coolant_temp |-> PyFloat(968),
                oil_pressure |-> PyFloat(721), intake_air_temp |-> PyFloat(426),
                battery_voltage |-> PyFloat(135), speed_fl |-> PyFloat(321),
                speed_fr |-> PyFloat(320), speed_rl |-> PyFloat(323),
                speed_rr |-> PyFloat(322), steering_angle |-> PyFloat(21),
                accel_lateral |-> PyFloat(1), accel_longitudinal |-> PyFloat(19)]
    IN  PyDict([k \in {f \in DOMAIN all : all[f] # Absent} |-> all[k]])

FixedSensorInputs ==
    {FixedSensors(v) : v \in {PyInt(8500), PyInt(12800), PyInt(0), PyInt(25000),
                              PyInt(-1), Word("not-a-number"), PyNone, Absent}}

SensorListInputs ==
    {PyList(<<r>>) : r \in ReadingInputs}
    \cup {PyList(<<a, b>>) : a, b \in {GoodReading, BadReading, RaisingReading,
                                       PyInt(1)}}
    \cup {PyList(<<>>), PyNone, Word("sensors"), PyInt(3)}

Location(lat, lon) ==
    LET all == [latitude |-> lat, longitude |-> lon]
    IN  PyDict([k \in {f \in DOMAIN all : all[f] # Absent} |-> all[k]])

Metadata(device, location, firmware, battery) ==
    LET all == [device_id |-> device, location |-> location,
                firmware_version |-> firmware, battery_level |-> battery]
    IN  PyDict([k \in {f \in DOMAIN all : all[f] # Absent} |-> all[k]])

ValidatorMetadataInputs ==
    {Metadata(de, lo, fi, ba) :
        de \in {Absent, Word("d1"), PyStr(<<" ">>), PyInt(1)},
        lo \in {Absent, PyNone, Location(PyInt(10), PyInt(100)),
                Location(PyInt(94), PyInt(-1)), Location(Absent, Word("x")),
                Location(PyFloat(-901), PyFloat(1801))},
        fi \in {Absent, Word("v1"), PyInt(2)},
        ba \in {Absent, PyInt(100), PyFloat(1001), PyInt(-1), Word("full")}}
    \cup {PyNone, Word("not-a-dict"), PyList(<<>>)}

GoodMetadata == Metadata(Word("d1"), Location(PyInt(10), PyInt(100)), Absent, Absent)

\* a payload of the generic schema, the fields that are Absent left out
GenericPayload(ts, sensors, metadata) ==
    LET all == [timestamp |-> ts, sensors |-> sensors, metadata |-> metadata]
    IN  PyDict([k \in {f \in DOMAIN all : all[f] # Absent} |-> all[k]])

ValidatorPayloads ==
    {GenericPayload(ts, sn, md) :
        ts \in {Absent, TsZ, DateOnly, PyInt(7), PyNone},
        sn \in {Absent, PyNone, PyList(<<GoodReading>>), PyList(<<BadReading>>),
                PyList(<<RaisingReading>>), PyList(<<BadReading, RaisingReading>>),
                PyList(<<BadReading, GoodReading>>), FixedSensors(PyInt(8500))},
        md \in {Absent, PyNone, GoodMetadata, EmptyDict,
                Metadata(PyInt(1), Location(PyInt(94), Absent), Absent, PyInt(-1)),
                Word("not-a-dict")}}

\* the payloads as mappings and as JSON texts, texts that are not JSON,
\* JSON texts of values that are not mappings, and values that are neither
\* a mapping nor a string
PayloadValidatorInputs ==
    ValidatorPayloads
    \cup {PyStr(Dumps(d).toks) : d \in ValidatorPayloads}
    \cup {PyStr(<<"not", " ", "json">>), PyStr(<<>>), PyStr(<<"{", "\"", "a", "\"">>),
          PyStr(<<"[", "1", ",", "2", "]">>), PyStr(<<"[", "]">>),
          PyStr(<<"[", "\"", "timestamp", "\"", "]">>),
          PyStr(<<"\"", "timestamp", "\"">>), PyStr(<<"\"", "abc", "\"">>),
          PyStr(<<"null">>), PyStr(<<"true">>), PyStr(<<" ", "7", " ">>),
          PyStr(<<"1", ".", "5">>), PyStr(<<"{", "}">>),
          PyInt(7), PyList(<<>>)}

ValidatorInputs ==
    TimestampValues \cup SensorListInputs \cup FixedSensorInputs
    \cup ValidatorMetadataInputs \cup PayloadValidatorInputs

\* The run of one function: its result as a record [raised, exc, ok,
\* errors, val], of which each function fills what it returns.
Outcome(raised, exc, ok, errors, val) ==
    [raised |-> raised, exc |-> exc, ok |-> ok, errors |-> errors, val |-> val]

ValidatePayload ==
    /\ validator.stage = "input"
    /\ LET r == validate_payload(validator.input)
       IN  validator' = [validator EXCEPT
              !.stage = "done", !.fn = "validate_payload",
              !.result = Outcome(r.raised, r.exc, r.ok, r.errors, PyNone)]
    /\ UNCHANGED <<store, pending, connLost, pc, cur, log, calls, faults, inputs,
                   callers, faultKinds, parser>>

ValidateSensors ==
    /\ validator.stage = "input"
    /\ LET r == validate_sensors(validator.input)
       IN  validator' = [validator EXCEPT
              !.stage = "done", !.fn = "validate_sensors",
              !.result = Outcome(r.raised, IF r.raised THEN "AttributeError" ELSE "",
                                 r.ok, r.errors, PyNone)]
    /\ UNCHANGED <<store, pending, connLost, pc, cur, log, calls, faults, inputs,
                   callers, faultKinds, parser>>

ValidateMetadata ==
    /\ validator.stage = "input"
    /\ LET r == validate_metadata(validator.input)
       IN  validator' = [validator EXCEPT
              !.stage = "done", !.fn = "validate_metadata",
              !.result = Outcome(FALSE, "", r.ok, r.errors, PyNone)]
    /\ UNCHANGED <<store, pending, connLost, pc, cur, log, calls, faults, inputs,
                   callers, faultKinds, parser>>

ValidateTimestamp ==
    /\ validator.stage = "input"
    /\ LET r == validate_timestamp(validator.input)
       IN  validator' = [validator EXCEPT
              !.stage = "done", !.fn = "validate_timestamp",
              !.result = Outcome(FALSE, "", r.ok,
                                 IF r.ok THEN <<>> ELSE <<r.error>>, PyNone)]
    /\ UNCHANGED <<store, pending, connLost, pc, cur, log, calls, faults, inputs,
                   callers, faultKinds, parser>>

\* parser._to_datetime(input)
ParserNormalize ==
    /\ validator.stage = "input"
    /\ LET r == ParserToDatetime(validator.input)
       IN  validator' = [validator EXCEPT
              !.stage = "done", !.fn = "parser._to_datetime",
              !.result = Outcome(~r.ok, IF r.ok THEN "" ELSE "ValueError",
                                 r.ok, <<>>, r.val)]
    /\ UNCHANGED <<store, pending, connLost, pc, cur, log, calls, faults, inputs,
                   callers, faultKinds, parser>>

\* db_insert._to_datetime(input)
InsertNormalize ==
    /\ validator.stage = "input"
    /\ LET r == InsertToDatetime(validator.input)
       IN  validator' = [validator EXCEPT
              !.stage = "done", !.fn = "db_insert._to_datetime",
              !.result = Outcome(~r.ok, IF r.ok THEN "" ELSE "ValueError",
                                 r.ok, <<>>, r.val)]
    /\ UNCHANGED <<store, pending, connLost, pc, cur, log, calls, faults, inputs,
                   callers, faultKinds, parser>>

\* One call of a validation or normalization function on one input.
InitValidate ==
    /\ InitCommon
    /\ store = {}
    /\ calls = 0
    /\ inputs = "none"
    /\ callers = {}
    /\ faultKinds = {}
    /\ parser = NoParse
    /\ validator \in [stage : {"input"}, input : ValidatorInputs, fn : {""},
                      result : {<<>>}]

NextValidate ==
    \/ ValidatePayload
    \/ ValidateSensors
    \/ ValidateMetadata
    \/ ValidateTimestamp
    \/ ParserNormalize
    \/ InsertNormalize

SpecValidate == InitValidate /\ [][NextValidate]_vars

\* ------------------------------------------------------ parse, format, insert
\* One payload parsed, formatted and its sensor rows inserted in one batch
\* on one connection, the store raising nothing of its own accord and
\* holding no reading of the payload.
InitPipeline ==
    /\ InitCommon
    /\ store \in {{}, {StoredRow(NormalizeRow(RowA).row, 0)}}
    /\ calls = MaxCalls - 1
    /\ inputs = "formatted"
    /\ callers = {1}
    /\ faultKinds = {}
    /\ parser \in [stage : {"input"}, input : ParseInputs, parsed : {<<>>},
                   formatted : {<<>>}]
    /\ validator = NoValidation

NextPipeline ==
    \/ Parse
    \/ Format
    \/ \E c \in Callers :
          \/ Call(c)
          \/ Cursor(c)
          \/ Execute(c)
          \/ Commit(c)
          \/ Except(c)

SpecPipeline == InitPipeline /\ [][NextPipeline]_vars

\* ------------------------------------------------------- insert properties
Completed == UNION {{log[c][i] : i \in 1..Len(log[c])} : c \in Callers}

\* the committed rows a call wrote, and their keys
RowsBy(no) == {r \in store : r.by = no}
InsertedKeys(e) == {r.key : r \in RowsBy(e.no)}

\* the keys of the rows a call sent to the store
KeysOf(e) == {NaturalKey(e.rows[i]) : i \in 1..Len(e.rows)}

\* the call got to the store and the store raised nothing during it
NoStoreError(e) == e.rows # <<>> /\ ~e.rolledBack /\ ~e.raised

NoDuplicateKeys == \A r1, r2 \in store : r1.key = r2.key => r1 = r2

\* C1: when a caller's insert_single of a reading returned ok, a later
\* insert_single by it of a reading with the same natural key, during which
\* the store raises nothing, returns (true, duplicate skipped); the first
\* call returned (true, inserted) unless another call had stored the key
\* before; and the store holds exactly one row for the key.
C1_InsertSingleIdempotent ==
    \A c \in Callers : \A i, j \in 1..Len(log[c]) :
        LET a == log[c][i]
            b == log[c][j]
        IN  ( /\ i < j
              /\ a.op = "insert_single" /\ b.op = "insert_single"
              /\ a.ok /\ NoStoreError(b)
              /\ KeysOf(a) = KeysOf(b) )
            => /\ b.ok /\ b.msg = "Duplicate sensor reading skipped"
               /\ a.msg = "Inserted 1 sensor reading"
                    \/ \E r \in store : r.key \in KeysOf(a) /\ r.by # a.no
               /\ (a.msg = "Inserted 1 sensor reading") = (RowsBy(a.no) # {})
               /\ Cardinality({r \in store : r.key \in KeysOf(a)}) = 1

\* the same reading twice on one connection: inserted, then skipped
C1_Witness ==
    \E c \in Callers :
        /\ Len(log[c]) = 2
        /\ log[c][1].op = "insert_single" /\ log[c][2].op = "insert_single"
        /\ log[c][1].data = log[c][2].data
        /\ log[c][1].msg = "Inserted 1 sensor reading"
        /\ log[c][2].msg = "Duplicate sensor reading skipped"
        /\ Cardinality(store) = 1

\* A successful call reports each of its keys truthfully: one successful
\* call, and only one, stored the key, the call's inserted count is the
\* number of keys it stored itself, and the rest of its rows are reported
\* as skipped.
ReportsExactlyOnce(e) ==
    /\ \A k \in KeysOf(e) :
          Cardinality({f \in Completed : f.ok /\ k \in InsertedKeys(f)}) = 1
    /\ e.inserted = Cardinality(InsertedKeys(e))
    /\ e.skipped = Len(e.rows) - e.inserted

\* C2 as claimed: as long as the store fails nowhere of its own accord,
\* under every interleaving the store holds no two rows with one natural
\* key, and every caller that sends a reading to the store gets ok = true,
\* exactly one of them reporting the reading inserted and the others
\* reporting it skipped.
C2_Original ==
    faults = 0 =>
        /\ NoDuplicateKeys
        /\ \A e \in Completed : e.rows # <<>> => e.ok /\ ReportsExactlyOnce(e)

\* C2 (amended): under every interleaving the store holds no two rows with
\* one natural key; of the calls that return ok = true exactly one reports
\* a reading inserted and every other reports it skipped; a call during
\* which the store raised (a deadlock victim among them) returns ok = false
\* after a rollback, and none of its rows is kept.
C2_ConcurrentWriters ==
    /\ NoDuplicateKeys
    /\ \A e \in Completed :
          e.rows # <<>> =>
              IF e.ok THEN ReportsExactlyOnce(e)
              ELSE e.rolledBack /\ RowsBy(e.no) = {}

\* a call that started while another caller was inside its own call found
\* the reading already stored by that caller, and skipped it
C2_Witness ==
    \E c, d \in Callers :
        /\ c # d
        /\ \E i \in 1..Len(log[c]), j \in 1..Len(log[d]) :
              /\ log[c][i].overlap /\ log[c][i].ok /\ log[d][j].ok
              /\ log[c][i].skipped >= 1
              /\ KeysOf(log[c][i]) \cap InsertedKeys(log[d][j]) # {}

\* C3: insert_batch sends nothing to the store while a row of the batch
\* fails the shape check; when row i is the first such row, the call returns
\* ok = false with "Row i" and that row's reason, has issued no execute and
\* no commit, and none of the batch's rows is persisted.
C3_BatchPreValidation ==
    /\ \A c \in Callers :
          (pc[c] # "idle" /\ cur[c].op = "insert_batch") =>
              \A i \in 1..Len(cur[c].data.l) :
                  NormalizeRow(cur[c].data.l[i]).error = ""
    /\ \A c \in Callers : \A n \in 1..Len(log[c]) :
          LET e == log[c][n]
          IN  (e.op = "insert_batch" /\ e.handle = "conn" /\ e.data.t = "list") =>
                  \A i \in 1..Len(e.data.l) :
                      ( /\ NormalizeRow(e.data.l[i]).error # ""
                        /\ \A j \in 1..(i - 1) : NormalizeRow(e.data.l[j]).error = "" )
                      => /\ ~e.ok /\ ~e.raised
                         /\ e.msg = "Row" /\ e.index = i - 1
                         /\ e.reason = NormalizeRow(e.data.l[i]).error
                         /\ e.nExec = 0 /\ ~e.committed
                         /\ RowsBy(e.no) = {} /\ pending[c] = {}

\* a batch whose row 0 is well-shaped and whose row 1 is not
C3_Witness ==
    \E e \in Completed :
        /\ e.op = "insert_batch" /\ e.msg = "Row" /\ e.index = 1
        /\ e.reason = "value must be numeric"
        /\ store = {}

\* C4: when an execute or the commit of insert_batch raised, the call
\* returns ok = false with the classified message of the exception, after a
\* rollback, and no row of the batch is in the store or left in any open
\* transaction.
C4_BatchAllOrNothing ==
    \A c \in Callers : \A n \in 1..Len(log[c]) :
        LET e == log[c][n]
        IN  (e.op = "insert_batch" /\ (e.execRaised \/ e.commitRaised)) =>
                /\ ~e.ok /\ e.rolledBack
                /\ e.msg = handle_insert_error(e.reason)
                /\ e.msg \in {"connection error", "integrity error", "data error",
                              "database error", "insert failed"}
                /\ RowsBy(e.no) = {}
                /\ \A d \in Callers : \A r \in pending[d] : r.by # e.no

\* a batch of two rows, both executed into an empty table, whose commit
\* failed
C4_Witness ==
    \E e \in Completed :
        /\ e.op = "insert_batch" /\ Len(e.rows) = 2 /\ e.nExec = 2
        /\ e.commitRaised /\ ~e.ok
        /\ store = {}

\* C5: a call that issued an execute has, when it returns, ended its
\* transaction by exactly one of a commit and a rollback: the commit only
\* when every execute succeeded, the rollback whenever an execute or the
\* commit raised; a caller outside a call has no uncommitted row.
C5_ScopedTransaction ==
    \A c \in Callers :
        /\ pc[c] = "idle" => pending[c] = {}
        /\ \A n \in 1..Len(log[c]) :
              LET e == log[c][n]
              IN  e.nExec >= 1 =>
                      /\ e.committed # e.rolledBack
                      /\ e.committed =>
                            /\ ~e.execRaised /\ ~e.commitRaised
                            /\ e.nExec = Len(e.rows) /\ e.ok
                      /\ (e.execRaised \/ e.commitRaised) => e.rolledBack /\ ~e.ok

\* one call ended by a commit and another, whose commit raised, by a
\* rollback
C5_Witness ==
    \E e, f \in Completed :
        /\ e.committed /\ e.nExec >= 1
        /\ f.rolledBack /\ f.commitRaised /\ f.nExec >= 1

\* row i of the call met a key that was already present: stored by another
\* call, or carried by an earlier row of the same batch
Conflicted(e, i) ==
    \/ \E r \in store : r.key = NaturalKey(e.rows[i]) /\ r.by # e.no
    \/ \E j \in 1..(i - 1) : NaturalKey(e.rows[j]) = NaturalKey(e.rows[i])

\* C6: a successful insert_batch reports as inserted the number of rows it
\* added to the store, as skipped the number of its rows that met an
\* already-present key, and the two add up to the size of the batch.
C6_BatchCounts ==
    \A e \in Completed :
        (e.op = "insert_batch" /\ e.ok) =>
            /\ e.inserted = Cardinality(RowsBy(e.no))
            /\ e.skipped = Cardinality({i \in 1..Len(e.rows) : Conflicted(e, i)})
            /\ e.inserted + e.skipped = Len(e.rows)

\* a batch of which one row was new and one a duplicate
C6_Witness ==
    \E e \in Completed :
        e.op = "insert_batch" /\ e.ok /\ e.inserted = 1 /\ e.skipped = 1

\* C7: no insert call ends by raising: every completed call returned a
\* flag and a message, whatever the handle, the argument and the failures
\* of cursor(), execute(), commit() and rollback(); a null handle and an
\* empty or non-list batch give ok = false.
C7_InsertNeverRaises ==
    \A e \in Completed :
        /\ ~e.raised
        /\ e.ok \in BOOLEAN /\ e.msg # ""
        /\ e.handle = "None" => ~e.ok
        /\ (e.op = "insert_batch" /\ (e.data.t # "list" \/ e.data.l = <<>>)) => ~e.ok

\* the connection was lost during a batch, so that the rollback raised too,
\* and the call still returned its message
C7_Witness ==
    \E c \in Callers : \E n \in 1..Len(log[c]) :
        /\ connLost[c]
        /\ log[c][n].op = "insert_batch" /\ log[c][n].rolledBack
        /\ ~log[c][n].ok /\ log[c][n].msg = "connection error"

\* the timestamp forms the timestamp normalizer turns into an instant: a
\* native datetime, a number, an ISO-8601 string
Coercible(x) ==
    \/ x.t \in {"datetime", "int", "float"}
    \/ x.t = "str" /\ FromIsoformat(RewriteZ(x.s)).ok

\* the shape the row gate is claimed to require
ShapeOK(d) ==
    /\ d.t = "dict"
    /\ \A i \in 1..Len(required_fields) : required_fields[i] \in DOMAIN d.d
    /\ Coercible(d.d["timestamp"])
    /\ \A f \in {"session_id", "vehicle_id", "sensor_name"} :
          IsStr(d.d[f]) /\ d.d[f].s # <<>>
    /\ IsNumber(d.d["value"]) /\ d.d["value"].t # "bool"

\* the rows a call was given
GivenRows(k) ==
    IF k.op = "insert_single" THEN {k.data}
    ELSE IF k.data.t = "list" THEN {k.data.l[i] : i \in 1..Len(k.data.l)}
    ELSE {}

\* C8 as claimed: an execute is issued only for rows of the claimed shape,
\* and insert_single of a row not of that shape returns ok = false and
\* leaves the store as it was.
C8_RowShapeGate ==
    /\ \A c \in Callers :
          cur[c].nExec >= 1 => \A d \in GivenRows(cur[c]) : ShapeOK(d)
    /\ \A e \in Completed :
          /\ e.nExec >= 1 => \A d \in GivenRows(e) : ShapeOK(d)
          /\ (e.op = "insert_single" /\ ~ShapeOK(e.data)) =>
                ~e.ok /\ RowsBy(e.no) = {}

\* ------------------------------------------------------- parser properties
\* the mapping a parser input stands for: itself, or what its JSON text
\* decodes to
DecodedInput(x) == IF x.t = "str" THEN Loads(x.s).val ELSE x

IsMappingInput(x) ==
    \/ x.t = "dict"
    \/ x.t = "str" /\ Loads(x.s).ok /\ Loads(x.s).val.t = "dict"

IsoString(x) == x.t = "str" /\ FromIsoformat(RewriteZ(x.s)).ok

\* a well-formed payload: an ISO-8601 timestamp, string session and vehicle
\* ids, a mapping of numeric sensors and a mapping of metadata
WellFormed(x) ==
    /\ IsMappingInput(x)
    /\ LET d == DecodedInput(x).d
       IN  /\ {"timestamp", "session_id", "vehicle_id", "sensors",
               "telemetry_metadata"} \subseteq DOMAIN d
           /\ IsoString(d["timestamp"])
           /\ IsStr(d["session_id"]) /\ IsStr(d["vehicle_id"])
           /\ d["sensors"].t = "dict"
           /\ \A k \in DOMAIN d["sensors"].d : d["sensors"].d[k].t \in {"int", "float"}
           /\ d["telemetry_metadata"].t = "dict"

\* C9 as claimed: for a well-formed payload P, whatever the keys of its
\* telemetry_metadata, the raw_payload column of format(parse(P)) is a JSON
\* text that decodes to P.
C9_RoundTrip ==
    (parser.stage = "formatted" /\ WellFormed(parser.input)) =>
        /\ parser.formatted.ok
        /\ parser.formatted.packet["raw_payload"].t = "str"
        /\ Loads(parser.formatted.packet["raw_payload"].s).ok
        /\ Loads(parser.formatted.packet["raw_payload"].s).val
              = DecodedInput(parser.input)

TimestampTaken(d) ==
    \/ "timestamp" \notin DOMAIN d
    \/ d["timestamp"].t \in {"NoneType", "datetime", "int", "float", "bool"}
    \/ IsoString(d["timestamp"])

ParsedPacket == parser.parsed.val.d

\* C11 as claimed: format produces exactly one sensor row per key of the
\* packet's sensor mapping, carrying the key as sensor_name, the mapped
\* value, and the packet's own timestamp, session_id and vehicle_id, also
\* when telemetry_metadata has keys named timestamp, session_id or
\* vehicle_id.
C11_SensorRowExpansion ==
    (parser.stage = "formatted" /\ parser.formatted.ok) =>
        LET rows == parser.formatted.sensors
            sensor_map == ParsedPacket["sensors"].d
        IN  /\ Len(rows) = Cardinality(DOMAIN sensor_map)
            /\ \A k \in DOMAIN sensor_map :
                  \E i \in 1..Len(rows) :
                      /\ rows[i].d["sensor_name"] = PyStr(KeyStr(k))
                      /\ rows[i].d["value"] = sensor_map[k]
            /\ \A i \in 1..Len(rows) :
                  /\ rows[i].d["timestamp"] = ParsedPacket["timestamp"]
                  /\ rows[i].d["session_id"] = ParsedPacket["session_id"]
                  /\ rows[i].d["vehicle_id"] = ParsedPacket["vehicle_id"]

\* ---------------------------------------------------- validator properties
Validated(fn) == validator.stage = "done" /\ validator.fn = fn

Contains(errors, e) == \E i \in 1..Len(errors) : errors[i] = e

ContainsAll(errors, part) == \A j \in 1..Len(part) : Contains(errors, part[j])

\* the errors of a list that report a missing top-level field
MissingReports(errors) ==
    {i \in 1..Len(errors) :
        Len(errors[i]) = 3 /\ errors[i][1] = "Payload"
        /\ errors[i][2] = "missing required field"}

\* C12 as claimed: validate_payload never stops at the first failure: for
\* a payload missing N required top-level fields the error list names all
\* N of them, and the errors of the timestamp, sensors and metadata
\* sub-validations are all in the result, whatever failed earlier in the
\* pass.
C12_ValidationComplete ==
    (Validated("validate_payload") /\ IsMappingInput(validator.input)) =>
        LET d == DecodedInput(validator.input).d
            errors == validator.result.errors
        IN  /\ ~validator.result.raised
            /\ \A i \in 1..Len(payload_required_fields) :
                  payload_required_fields[i] \notin DOMAIN d =>
                      Contains(errors, <<"Payload", "missing required field",
                                         payload_required_fields[i]>>)
            /\ Cardinality(MissingReports(errors))
                  = Len(MissingFields(payload_required_fields, d))
            /\ ("timestamp" \in DOMAIN d /\ ~validate_timestamp(d["timestamp"]).ok) =>
                  Contains(errors, <<"Payload">> \o validate_timestamp(d["timestamp"]).error)
            /\ "sensors" \in DOMAIN d =>
                  ContainsAll(errors, validate_sensors(d["sensors"]).errors)
            /\ "metadata" \in DOMAIN d =>
                  ContainsAll(errors, validate_metadata(d["metadata"]).errors)
            /\ validator.result.ok = (errors = <<>>)

\* C13 as claimed: for every input that is a mapping or a string,
\* validate_payload returns (is_valid, errors) without raising, whatever
\* the string decodes to and whatever the types of the fields; a string
\* that is not JSON gives is_valid = false and exactly one error.
C13_NonStrictReturns ==
    (Validated("validate_payload") /\ validator.input.t \in {"dict", "str"}) =>
        /\ ~validator.result.raised
        /\ (validator.input.t = "str" /\ ~Loads(validator.input.s).ok) =>
              ~validator.result.ok /\ Len(validator.result.errors) = 1

\* engine_rpm inside the range the fixed-field schema gives it
EngineRpmInRange(d) ==
    /\ "engine_rpm" \in DOMAIN d
    /\ d["engine_rpm"].t = "int"
    /\ d["engine_rpm"].n \in 0..14000

Names(errors, field) ==
    \E i \in 1..Len(errors) : \E j \in 1..Len(errors[i]) : errors[i][j] = field

\* C14 as claimed: validate_sensors applied to a mapping of the 14 named
\* sensor fields returns valid with no errors when every value is numeric
\* and in range (engine_rpm = 8500), and invalid with an error naming the
\* field when a value is out of range (engine_rpm = 25000), not numeric or
\* missing.
C14_FixedFieldRanges ==
    (Validated("validate_sensors") /\ validator.input \in FixedSensorInputs) =>
        /\ ~validator.result.raised
        /\ EngineRpmInRange(validator.input.d) =>
              validator.result.ok /\ validator.result.errors = <<>>
        /\ ~EngineRpmInRange(validator.input.d) =>
              ~validator.result.ok /\ Names(validator.result.errors, "engine_rpm")

Normalizers == {"parser._to_datetime", "db_insert._to_datetime"}

\* C15 as claimed: "2024-01-15T10:30:00Z" and "2024-01-15T10:30:00+00:00"
\* are accepted and normalize to the same instant; "2024-01-15" and
\* "not-a-timestamp" are rejected with a non-empty reason, by the validator
\* and by the normalizer.
C15_TimestampAcceptance ==
    validator.stage = "done" =>
        /\ (validator.fn = "validate_timestamp" /\ validator.input \in {TsZ, TsOffset}) =>
              validator.result.ok
        /\ (validator.fn = "validate_timestamp"
              /\ validator.input \in {DateOnly, NotATimestamp}) =>
              /\ ~validator.result.ok
              /\ Len(validator.result.errors) = 1
              /\ validator.result.errors[1] # <<>>
        /\ (validator.fn \in Normalizers /\ validator.input \in {TsZ, TsOffset}) =>
              ~validator.result.raised /\ validator.result.val = PyDatetime(I1)
        /\ (validator.fn \in Normalizers
              /\ validator.input \in {DateOnly, NotATimestamp}) =>
              validator.result.raised

\* C16 as claimed: normalization returns an Instant for a native datetime,
\* a number and an ISO-8601 string, fails for an input of any other type
\* (null too) and for an unparseable string, and never returns a value
\* that is not an Instant.
C16_NormalizerTypes ==
    (validator.stage = "done" /\ validator.fn \in Normalizers) =>
        LET accepted == \/ validator.input.t = "datetime"
                        \/ IsNumber(validator.input)
                        \/ IsoString(validator.input)
        IN  /\ accepted => ~validator.result.raised
            /\ ~accepted => validator.result.raised
            /\ ~validator.result.raised => validator.result.val.t = "datetime"

\* 2024-01-15T00:00, without offset: what fromisoformat makes of a date
Midnight == PyDatetime(Instant(19737 * 1440, FALSE))

\* C15 (amended): the Z-suffixed string and its +00:00 spelling are accepted
\* by the validator and by both normalizers, which give the same instant
\* for the two; "not-a-timestamp" is rejected by all of them and the
\* validator's reason is not empty; "2024-01-15" is rejected by the
\* validator only: the normalizers return midnight of that day.
C15_ValidatorStricterThanNormalizer ==
    validator.stage = "done" =>
        /\ (validator.fn = "validate_timestamp" /\ validator.input \in {TsZ, TsOffset}) =>
              validator.result.ok /\ validator.result.errors = <<>>
        /\ (validator.fn = "validate_timestamp"
              /\ validator.input \in {DateOnly, NotATimestamp}) =>
              /\ ~validator.result.ok
              /\ Len(validator.result.errors) = 1
              /\ validator.result.errors[1] # <<>>
        /\ (validator.fn \in Normalizers /\ validator.input \in {TsZ, TsOffset}) =>
              ~validator.result.raised /\ validator.result.val = PyDatetime(I1)
        /\ (validator.fn \in Normalizers /\ validator.input = NotATimestamp) =>
              validator.result.raised
        /\ (validator.fn \in Normalizers /\ validator.input = DateOnly) =>
              ~validator.result.raised /\ validator.result.val = Midnight

\* the validator rejected "2024-01-15" for its missing time component
C15_Witness ==
    /\ Validated("validate_timestamp")
    /\ validator.input = DateOnly
    /\ ~validator.result.ok
    /\ validator.result.errors
          = << <<"Invalid ISO 8601 timestamp format", "Must include time component">> >>

\* the message the claim gives each kind of failure
Classified(kind) ==
    CASE kind = "OperationalError" -> "connection error"
      [] kind = "IntegrityError" -> "integrity error"
      [] kind = "DataError" -> "data error"
      [] kind = "ProgrammingError" -> "database error"
      [] OTHER -> "insert failed"

\* the completed calls during which cursor(), execute() or commit() raised
Failed == {e \in Completed : e.rolledBack \/ e.raised}

\* C17: when the store raises during an insert the call returns ok = false
\* with the message of the most specific kind: connection error for an
\* operational failure, integrity error, data error, database error for
\* any other database error, and the generic insert failure for anything
\* else (an interface error of the driver, an error that is not the
\* driver's).
C17_FailureClassification ==
    \A e \in Failed :
        /\ ~e.raised
        /\ ~e.ok
        /\ e.reason \in ErrorKinds
        /\ e.msg = Classified(e.reason)

\* an execute failed with a database error that is none of the three
\* specific kinds
C17_Witness ==
    \E e \in Failed :
        /\ e.reason = "ProgrammingError" /\ e.msg = "database error"
        /\ e.execRaised /\ ~e.ok

\* ---------------------------------------------------- end-to-end properties
\* the natural key of a sensor row as format builds it
RowKey(r) == <<r.d["timestamp"], r.d["session_id"], r.d["vehicle_id"],
               r.d["sensor_name"]>>

\* a packet with non-empty string session_id and vehicle_id, non-empty
\* sensor names and numeric, non-boolean values; and, to read the claim in
\* its favour, with a normalized timestamp and at least one sensor
InsertablePacket(packet) ==
    /\ packet["timestamp"].t = "datetime"
    /\ DOMAIN packet["sensors"].d # {}
    /\ NonEmptyStr(packet["session_id"])
    /\ NonEmptyStr(packet["vehicle_id"])
    /\ \A k \in DOMAIN packet["sensors"].d :
          /\ Strip(KeyStr(k)) # <<>>
          /\ packet["sensors"].d[k].t \in {"int", "float"}

\* C18 as claimed: the sensor rows format derives from a parsed packet have
\* pairwise distinct natural keys, and insert_batch of the rows of a packet
\* with non-empty string session_id and vehicle_id, non-empty sensor names
\* and numeric non-boolean values, into a store holding none of their keys,
\* returns ok with inserted = number of sensors and skipped = 0.
C18_EndToEndDistinctKeys ==
    /\ (parser.stage = "formatted" /\ parser.formatted.ok) =>
          \A i, j \in 1..Len(parser.formatted.sensors) :
              i # j => RowKey(parser.formatted.sensors[i])
                          # RowKey(parser.formatted.sensors[j])
    /\ \A e \in Completed :
          (e.op = "insert_batch" /\ InsertablePacket(ParsedPacket)) =>
              /\ e.ok
              /\ e.inserted = Cardinality(DOMAIN ParsedPacket["sensors"].d)
              /\ e.skipped = 0

=============================================================================
